---- MODULE Spec2Model ----
(***************************************************************************)
(* Model of the zk-auth benchmark harness.                                 *)
(*                                                                         *)
(* SpecNative models bench_native.sh: a shell script under set -e that     *)
(* starts the server and a top sampler in the background, runs the k6     *)
(* load in the foreground and then kills the two background processes.     *)
(* One action is one command of the script, or a step of a background      *)
(* process.                                                                *)
(*                                                                         *)
(* Spec models bench-mark/bench.js: the readiness check, the preflight     *)
(* chain register -> proof -> verify, the lookup of the server process,    *)
(* the sweep over endpoints and concurrency levels, the resource sampler   *)
(* (a setInterval timer whose callback awaits pidusage) and the report.    *)
(* One action is one run-to-completion job of the Node.js event loop: the  *)
(* code of main between two awaits, one timer callback, or the             *)
(* continuation of one pending pidusage read.                              *)
(*                                                                         *)
(* JavaScript values are records, so that values of different types can    *)
(* be compared: undefined, null, NaN, Str(s) and Num(n); a Number that is  *)
(* the result of a division is the reduced fraction [num, den].            *)
(***************************************************************************)
EXTENDS Integers, Sequences, FiniteSets, TLC

----------------------------------------------------------------------------
(* Bounds of the model *)

\* how many of the configured concurrency levels the sweep runs
NumLevels == 2
\* how many sampler ticks fire during one run
MaxTicks == 2
\* how many requests the load runs of one sweep send
MaxRequests == 2
\* staged engine: how many virtual users run, and how many iterations they start
NumVUs == 2
MaxIters == 3
\* native script: how many lines the top sampler appends to top.log
MaxSamples == 2

----------------------------------------------------------------------------
(* JavaScript values *)

undefined == [undefined |-> TRUE]
null == [null |-> TRUE]
NaN == [nan |-> TRUE]
Str(s) == [str |-> s]
Num(n) == [num |-> n, den |-> 1]
Bool(b) == [bool |-> b]

IsNumber(v) == DOMAIN v = {"num", "den"}

\* ToBoolean: undefined, null, NaN, 0, "" and false are falsy
Truthy(v) ==
  /\ v # undefined
  /\ v # null
  /\ v # NaN
  /\ v # Bool(FALSE)
  /\ v # Str("")
  /\ IsNumber(v) => v.num # 0

\* a || b
Or(a, b) == IF Truthy(a) THEN a ELSE b

\* property access obj.k: undefined when the object has no such property
Get(obj, k) == IF k \in DOMAIN obj THEN obj[k] ELSE undefined

\* JSON.stringify of an object: properties whose value is undefined are left out
Stringify(obj) ==
  [k \in {j \in DOMAIN obj : obj[j] # undefined} |-> obj[k]]

RECURSIVE Gcd(_, _)
Gcd(a, b) == IF b = 0 THEN a ELSE Gcd(b, a % b)

\* the Number a / n for integers a >= 0 and n > 0
Div(a, n) == LET g == Gcd(a, n) IN [num |-> a \div g, den |-> n \div g]

----------------------------------------------------------------------------
(* Configuration (bench.js lines 20-23) *)

AllLevels == <<1, 10, 15, 20, 25, 30>>
CONCURRENCY_LEVELS ==
  SubSeq(AllLevels, 1, IF NumLevels < Len(AllLevels) THEN NumLevels ELSE Len(AllLevels))
EndpointNames == <<"register", "generateProof", "verifyProof">>
EndpointPaths == <<"/register", "/proof", "/verify">>
maxAttempts == 30

----------------------------------------------------------------------------
(* The environment: what the server, the operating system and the load     *)
(* generator can answer                                                     *)

\* Math.random().toString(36).slice(2)
Rnds == {"k3x", "q9f"}

\* outcome of the readiness probe: no response at all, or an HTTP response
GetOutcomes ==
  {[kind |-> "neterr"]} \cup {[kind |-> "http", status |-> st] : st \in {200, 404, 500}}

\* outcome of a POST: no response, an error status, or 200 with one of the bodies
PostOutcomes(bodies) ==
  {[kind |-> "neterr"], [kind |-> "http", status |-> 500, data |-> Str("Internal Server Error")]}
    \cup {[kind |-> "http", status |-> 200, data |-> d] : d \in bodies}

RegisterBodies ==
  { [secret |-> Str("0xAA"), commitment |-> Str("123")],
    [commitment |-> Str("123")],
    [secret |-> Str("0xAA")] }
ProofBodies == { [proof |-> Str("PRF")], [status |-> Str("queued")] }
VerifyBodies == { [valid |-> Bool(TRUE)], [valid |-> Bool(FALSE)], [message |-> Str("no result")] }

\* first line of `lsof -i :port -t | head -n1`: empty when nothing listens, else the
\* decimal digits of a process id (a process id is positive)
LsofOutcomes == {[kind |-> "error"], [kind |-> "ok", stdout |-> <<>>], [kind |-> "ok", stdout |-> <<4, 2>>]}

\* what a pidusage read resolves to
PidusageStats == {[cpu |-> 0, memory |-> 4], [cpu |-> 3, memory |-> 8]}

\* what a load run reports (the latency histogram of autocannon has average, mean
\* and p50, and no median)
LoadResults ==
  { [latency |-> [average |-> Num(7), p50 |-> Num(6), mean |-> Num(7)],
     throughput |-> [average |-> Num(2048)], requests |-> [average |-> Num(90)]] }

----------------------------------------------------------------------------
(* State *)

VARIABLES
  pc,           \* where main is suspended, or how the process ended
  i,            \* waitForServer: number of the attempt in flight
  gotResponse,  \* history: some readiness attempt received an HTTP response
  reqLog,       \* history: the preflight requests sent, in order
  reg, prf, verResp,              \* main: the responses of the preflight chain
  secretHex, commitment, proof,   \* main: the fixture
  endpoints,    \* main: the endpoint benchmarks
  serverPid,    \* main: result of findServerPid
  ep, c,        \* main: positions of the two loops (0 before the sweep)
  monitor,      \* main: the monitor of the current phase, or null
  monitors,     \* every monitor created so far: its timer and its samples array
  pending,      \* the pidusage reads in flight
  loads,        \* the autocannon instances that are running
  summaries,    \* main: the summary records
  attributed,   \* history: for each summary record, the samples that were averaged
  table,        \* the results table as printed
  stderr,       \* the messages written by console.error
  exitCode,     \* null while the process runs, then its exit status
  ticks,        \* number of sampler ticks fired so far
  inflight,     \* the requests of the running autocannon instance that are in flight
  sent,         \* number of load requests sent so far
  reqFailures,  \* history: number of load requests that failed so far
  fnIn, fnOut,  \* argument and result of a function applied on its own
  vu,           \* staged engine: the virtual users (position, locals of the iteration)
  trends,       \* staged engine: number of entries of each latency trend
  checks,       \* staged engine: passes and fails of each check
  issued,       \* history: number of requests issued for each step
  iters,        \* staged engine: number of iterations started so far
  sh,           \* native script: the command the shell is at, or "exited"
  procs,        \* native script: the background processes by pid, and their state
  PID, TOPPID,  \* native script: the shell variables ($! of the server and of top; 0 unset)
  shStatus,     \* native script: null while the script runs, then its exit status
  topLog        \* native script: number of lines of top.log

vars == <<pc, i, gotResponse, reqLog, reg, prf, verResp, secretHex, commitment, proof, endpoints,
          serverPid, ep, c, monitor, monitors, pending, loads, summaries,
          attributed, table, stderr, exitCode, ticks, inflight, sent, reqFailures,
          fnIn, fnOut, vu, trends, checks, issued, iters,
          sh, procs, PID, TOPPID, shStatus, topLog>>

pureVars == <<fnIn, fnOut>>
stagedVars == <<vu, trends, checks, issued, iters>>
\* what the actions of the sweep leave alone
nativeVars == <<sh, procs, PID, TOPPID, shStatus, topLog>>
otherVars == <<sent, reqFailures, pureVars, stagedVars, nativeVars>>

fixtureVars == <<secretHex, commitment, proof>>
responseVars == <<reg, prf, verResp>>
preflightVars == <<i, gotResponse, reqLog, responseVars, fixtureVars, endpoints>>
sweepVars == <<ep, c, monitor, monitors, loads, summaries, attributed, table>>
samplerVars == <<pending, ticks>>

----------------------------------------------------------------------------
(* Helpers of bench.js *)

buildUser(rnd) ==
  [email |-> [prefix |-> "user-", rnd |-> rnd, suffix |-> "@example.com"],
   name |-> Str("Alice Doe"), age |-> Num(35), country |-> Str("US"),
   dob |-> Str("1989-05-17")]

\* the promise returned by axios.get / axios.post: fulfilled with the response on a
\* 2xx status, rejected otherwise; the error carries the response when there was one
AxiosRequest(o) ==
  IF o.kind = "http" /\ o.status >= 200 /\ o.status < 300
  THEN [state |-> "fulfilled", value |-> o]
  ELSE [state |-> "rejected",
        reason |-> IF o.kind = "http" THEN [response |-> o] ELSE [code |-> "ECONNREFUSED"]]

\* promise.catch(e => e.response)
CatchResponse(p) ==
  IF p.state = "rejected"
  THEN [state |-> "fulfilled", value |-> Get(p.reason, "response")]
  ELSE p

\* parseInt(text, 10) of a string of decimal digits
RECURSIVE ParseDigits(_)
ParseDigits(ds) ==
  IF ds = <<>> THEN 0 ELSE 10 * ParseDigits(SubSeq(ds, 1, Len(ds) - 1)) + ds[Len(ds)]
ParseInt(ds) == IF ds = <<>> THEN NaN ELSE Num(ParseDigits(ds))

\* findServerPid, given how the lsof command ended
findServerPid(o) ==
  IF o.kind = "error" THEN null
  ELSE LET pid == ParseInt(o.stdout) IN IF pid = NaN THEN null ELSE pid

\* variants of PushTarget with one array shared by the monitors
PushTargetLatest(m) == Len(monitors)
PushTargetFirst(m) == 1

\* the array a pidusage read is pushed to when it resolves: the samples array of the
\* monitor whose timer callback started the read
PushTarget(m) == m

\* startResourceMonitor: a fresh samples array and a running timer
\* (phase: the number of the phase it was started for, kept for the properties)
startResourceMonitor(pid, phase) ==
  [pid |-> pid, timer |-> TRUE, samples |-> <<>>, phase |-> phase]

\* variant of stop that leaves the timer running
stopNoop(mon) == mon

\* monitor.stop(): clearInterval(timer)
stop(mon) == [mon EXCEPT !.timer = FALSE]

RECURSIVE SumOf(_, _)
SumOf(samples, f) ==
  IF samples = <<>> THEN 0 ELSE samples[1][f] + SumOf(Tail(samples), f)

\* variant of computeAverages that returns the sums, not divided by the count
computeAveragesNoDiv(samples) ==
  IF Len(samples) = 0 THEN null
  ELSE [cpu |-> Num(SumOf(samples, "cpu")), memory |-> Num(SumOf(samples, "memory"))]

computeAverages(samples) ==
  IF Len(samples) = 0 THEN null
  ELSE LET n == Len(samples)
       IN [cpu |-> Div(SumOf(samples, "cpu"), n), memory |-> Div(SumOf(samples, "memory"), n)]

\* the record pushed to summaries (lines 178-187)
SummaryRecord(name, conc, result, avg) ==
  [endpoint       |-> name,
   concurrency    |-> conc,
   latencyAvg     |-> Get(result.latency, "average"),
   latencyP50     |-> Or(Get(result.latency, "p50"),
                         Or(Get(result.latency, "median"), Get(result.latency, "mean"))),
   throughputAvg  |-> Get(result.throughput, "average"),
   requestsPerSec |-> Get(result.requests, "average"),
   cpu            |-> IF Truthy(avg) THEN avg.cpu ELSE null,
   memory         |-> IF Truthy(avg) THEN avg.memory ELSE null]

\* variant of Endpoints whose proof benchmark sends the two fixture values swapped
EndpointsSwapped(sec, com, pf) ==
  << [name |-> "register", path |-> "/register", body |-> [setupRequest |-> "buildUser"]],
     [name |-> "generateProof", path |-> "/proof",
      body |-> Stringify([secret_hex |-> com, commitment |-> sec])],
     [name |-> "verifyProof", path |-> "/verify",
      body |-> Stringify([commitment |-> com, proof |-> pf])] >>

\* the endpoint benchmarks (lines 121-152); register builds its body per request
Endpoints(sec, com, pf) ==
  << [name |-> "register", path |-> "/register", body |-> [setupRequest |-> "buildUser"]],
     [name |-> "generateProof", path |-> "/proof",
      body |-> Stringify([secret_hex |-> sec, commitment |-> com])],
     [name |-> "verifyProof", path |-> "/verify",
      body |-> Stringify([commitment |-> com, proof |-> pf])] >>

\* the body autocannon sends for a request template: setupRequest is called for
\* every request (lines 128-131), a body given as a string is sent as it is
RequestBody(request, rnd) ==
  IF "setupRequest" \in DOMAIN request.body
  THEN Stringify(buildUser(rnd))
  ELSE request.body

\* how a request of a load run can end
LoadResponses == {"2xx", "non2xx", "error"}

\* variant of RequestFailureRejects: a failed request makes the load run reject
RequestFailureRejectsAlways == TRUE

\* lines 86-91: the promise of a load run is rejected only with the error of the
\* autocannon callback; requests that fail are counted in the result
RequestFailureRejects == FALSE

\* number of the phase at loop positions (e, k), counted from 1
PhaseNo(e, k) == (e - 1) * Len(CONCURRENCY_LEVELS) + k
NumPhases == Len(EndpointNames) * Len(CONCURRENCY_LEVELS)

\* variant of FatalExitCode: the catch handler exits with status 0
FatalExitCodeZero == Num(0)

\* the status passed to process.exit by the catch handler of main (line 207)
FatalExitCode == Num(1)

\* variant of VerifyAccepted that does not look at data.valid
VerifyAcceptedAlways(data) == TRUE

\* line 112: the verify response is accepted when data.valid is truthy
VerifyAccepted(data) == Truthy(Get(data, "valid"))

\* variant of MonitorWanted that starts a monitor whatever serverPid is
MonitorWantedAlways(pid) == TRUE

\* line 167: a monitor is started when serverPid is truthy
MonitorWanted(pid) == Truthy(pid)

\* variants of the loops: concurrency levels outer and endpoints inner; and a sweep
\* that ends at the first level of the last endpoint
NextPosLevelsOuter(e, k) == IF e < Len(EndpointNames) THEN <<e + 1, k>> ELSE <<1, k + 1>>
LastPosEarly(e, k) == e = Len(EndpointNames)

\* the loops of lines 163-165: the position after (e, k), and the last position
NextPos(e, k) == IF k < Len(CONCURRENCY_LEVELS) THEN <<e, k + 1>> ELSE <<e + 1, 1>>
LastPos(e, k) == e = Len(EndpointNames) /\ k = Len(CONCURRENCY_LEVELS)

\* toFixed is called on these fields when the table is printed (lines 195-198)
Printable(s) ==
  /\ IsNumber(s.latencyAvg)
  /\ IsNumber(s.latencyP50)
  /\ IsNumber(s.throughputAvg)
  /\ IsNumber(s.requestsPerSec)

\* variant of ReadErrorSwallowed: the error of a failed read leaves the callback
ReadErrorThrown == FALSE

\* line 71: try { ... } catch {} around the read
ReadErrorSwallowed == TRUE

\* a pidusage read fails (no such process, no permission) or resolves to the usage
PidusageOutcomes == {[kind |-> "error"]} \cup {[kind |-> "ok", stat |-> st] : st \in PidusageStats}

LoadOutcomes == {[kind |-> "error"]} \cup {[kind |-> "done", result |-> r] : r \in LoadResults}

\* staged engine: the steps of the chain, and metrics without entries
Steps == <<"register", "proof", "verify">>
NoCounts == [register |-> 0, proof |-> 0, verify |-> 0]
NoChecks == [register |-> [passes |-> 0, fails |-> 0],
             proof    |-> [passes |-> 0, fails |-> 0],
             verify   |-> [passes |-> 0, fails |-> 0]]

\* the native script is not run
NoScript ==
  /\ sh = "none"
  /\ procs = <<>>
  /\ PID = 0
  /\ TOPPID = 0
  /\ shStatus = null
  /\ topLog = 0

----------------------------------------------------------------------------
(* Init: main has called waitForServer, whose first attempt is in flight *)

Init ==
  /\ pc = "waitForServer"
  /\ i = 1
  /\ gotResponse = FALSE
  /\ reqLog = <<>>
  /\ reg = undefined
  /\ prf = undefined
  /\ verResp = undefined
  /\ secretHex = undefined
  /\ commitment = undefined
  /\ proof = undefined
  /\ endpoints = <<>>
  /\ serverPid = undefined
  /\ ep = 0
  /\ c = 0
  /\ monitor = undefined
  /\ monitors = <<>>
  /\ pending = {}
  /\ loads = {}
  /\ summaries = <<>>
  /\ attributed = <<>>
  /\ table = <<>>
  /\ stderr = <<>>
  /\ exitCode = null
  /\ ticks = 0
  /\ inflight = {}
  /\ sent = 0
  /\ reqFailures = 0
  /\ fnIn = undefined
  /\ fnOut = undefined
  /\ vu = <<>>
  /\ trends = NoCounts
  /\ checks = NoChecks
  /\ issued = NoCounts
  /\ iters = 0
  /\ NoScript

\* an error leaves main: the catch handler of line 207 prints it and exits
Fatal(msgs) ==
  /\ stderr' = stderr \o msgs
  /\ exitCode' = FatalExitCode
  /\ pc' = "exited"

PreflightFailed == "Failed to pre-compute proof / verification payloads"

\* lines 164-173: the body of the inner loop up to the await of the load run
BeginPhase(e, k, pid, mons, lds) ==
  /\ ep' = e
  /\ c' = k
  /\ IF MonitorWanted(pid)
     THEN /\ monitors' = Append(mons, startResourceMonitor(pid, PhaseNo(e, k)))
          /\ monitor' = [ref |-> Len(mons) + 1]
     ELSE /\ monitors' = mons
          /\ monitor' = null
  /\ loads' = lds \cup {[connections |-> CONCURRENCY_LEVELS[k],
                         requests |-> endpoints[e], phase |-> PhaseNo(e, k)]}
  /\ pc' = "load"

----------------------------------------------------------------------------
(* Actions *)

\* waitForServer (lines 45-56): the attempt in flight settles; when waitForServer
\* returns, main goes on to send the register request of the preflight (line 104)
waitForServer ==
  /\ pc = "waitForServer"
  /\ \E o \in GetOutcomes, rnd \in Rnds :
       LET p == CatchResponse(AxiosRequest(o)) IN
       /\ gotResponse' = (gotResponse \/ o.kind = "http")
       /\ IF p.state = "fulfilled"
          THEN /\ pc' = "register"
               /\ reqLog' = Append(reqLog, [path |-> "/register",
                                            body |-> Stringify(buildUser(rnd))])
               /\ UNCHANGED <<i, stderr, exitCode>>
          ELSE IF i = maxAttempts
               THEN Fatal(<<"Server not reachable">>) /\ UNCHANGED <<i, reqLog>>
               ELSE i' = i + 1 /\ UNCHANGED <<pc, reqLog, stderr, exitCode>>
  /\ UNCHANGED <<responseVars, fixtureVars, endpoints, serverPid, sweepVars, samplerVars>>
  /\ UNCHANGED <<inflight, otherVars>>

\* lines 104-108: the register response arrives; the proof request is sent
preflightRegister ==
  /\ pc = "register"
  /\ \E o \in PostOutcomes(RegisterBodies) :
       LET p == AxiosRequest(o) IN
       IF p.state = "rejected"
       THEN Fatal(<<PreflightFailed, "register request failed">>)
            /\ UNCHANGED <<reg, secretHex, commitment, reqLog>>
       ELSE /\ reg' = p.value
            /\ secretHex' = Get(p.value.data, "secret")
            /\ commitment' = Get(p.value.data, "commitment")
            /\ reqLog' = Append(reqLog,
                 [path |-> "/proof",
                  body |-> Stringify([secret_hex |-> secretHex', commitment |-> commitment'])])
            /\ pc' = "proof"
            /\ UNCHANGED <<stderr, exitCode>>
  /\ UNCHANGED <<i, gotResponse, prf, verResp, proof, endpoints, serverPid, sweepVars,
                 samplerVars>>
  /\ UNCHANGED <<inflight, otherVars>>

\* lines 108-111: the proof response arrives; the verify request is sent
preflightProof ==
  /\ pc = "proof"
  /\ \E o \in PostOutcomes(ProofBodies) :
       LET p == AxiosRequest(o) IN
       IF p.state = "rejected"
       THEN Fatal(<<PreflightFailed, "proof request failed">>)
            /\ UNCHANGED <<prf, proof, reqLog>>
       ELSE /\ prf' = p.value
            /\ proof' = Get(p.value.data, "proof")
            /\ reqLog' = Append(reqLog,
                 [path |-> "/verify",
                  body |-> Stringify([commitment |-> commitment, proof |-> proof'])])
            /\ pc' = "verify"
            /\ UNCHANGED <<stderr, exitCode>>
  /\ UNCHANGED <<i, gotResponse, reg, verResp, secretHex, commitment, endpoints, serverPid,
                 sweepVars, samplerVars>>
  /\ UNCHANGED <<inflight, otherVars>>

\* lines 111-155: the verify response arrives; when it is accepted the endpoint
\* benchmarks are defined and findServerPid runs lsof
preflightVerify ==
  /\ pc = "verify"
  /\ \E o \in PostOutcomes(VerifyBodies) :
       LET p == AxiosRequest(o) IN
       IF p.state = "rejected"
       THEN Fatal(<<PreflightFailed, "verify request failed">>)
            /\ UNCHANGED <<verResp, endpoints>>
       ELSE /\ verResp' = p.value
            /\ IF ~VerifyAccepted(p.value.data)
               THEN Fatal(<<PreflightFailed,
                            "Initial verification failed; proof or commitment invalid">>)
                    /\ UNCHANGED endpoints
               ELSE /\ endpoints' = Endpoints(secretHex, commitment, proof)
                    /\ pc' = "findServerPid"
                    /\ UNCHANGED <<stderr, exitCode>>
  /\ UNCHANGED <<i, gotResponse, reqLog, reg, prf, fixtureVars, serverPid, sweepVars,
                 samplerVars>>
  /\ UNCHANGED <<inflight, otherVars>>

\* lines 155-173: lsof ends, findServerPid returns, and the first phase begins
sweepStart ==
  /\ pc = "findServerPid"
  /\ \E o \in LsofOutcomes :
       LET pid == findServerPid(o) IN
       /\ serverPid' = pid
       /\ BeginPhase(1, 1, pid, monitors, loads)
  /\ UNCHANGED <<preflightVars, summaries, attributed,
                 table, stderr, exitCode, samplerVars>>
  /\ UNCHANGED <<inflight, otherVars>>

\* lines 169-206: the load run of the current phase ends; the monitor is stopped, the
\* summary record is pushed, and the next phase begins or the table is printed
phaseDone ==
  /\ pc = "load"
  /\ \E inst \in loads, o \in LoadOutcomes :
       IF o.kind = "error"
       THEN /\ Fatal(<<"load run failed">>)
            /\ loads' = loads \ {inst}
            /\ UNCHANGED <<ep, c, monitor, monitors, summaries, attributed, table>>
       ELSE LET mons == IF Truthy(monitor)
                        THEN [monitors EXCEPT ![monitor.ref] = stop(@)]
                        ELSE monitors
                read == IF Truthy(monitor) THEN mons[monitor.ref].samples ELSE <<>>
                avg  == IF Truthy(monitor) THEN computeAverages(read) ELSE null
                sums == Append(summaries,
                          SummaryRecord(endpoints[ep].name, CONCURRENCY_LEVELS[c],
                                        o.result, avg))
            IN /\ summaries' = sums
               /\ attributed' = Append(attributed, read)
               /\ IF ~LastPos(ep, c)
                  THEN /\ BeginPhase(NextPos(ep, c)[1], NextPos(ep, c)[2], serverPid,
                                     mons, loads \ {inst})
                       /\ UNCHANGED <<table, stderr, exitCode>>
                  ELSE /\ monitors' = mons
                       /\ loads' = loads \ {inst}
                       /\ UNCHANGED <<ep, c, monitor>>
                       /\ IF \A n \in 1..Len(sums) : Printable(sums[n])
                          THEN /\ table' = sums
                               /\ pc' = "completed"
                               /\ UNCHANGED <<stderr, exitCode>>
                          ELSE /\ Fatal(<<"TypeError: toFixed of undefined">>)
                               /\ UNCHANGED table
  /\ UNCHANGED <<preflightVars, serverPid, samplerVars>>
  /\ inflight' = {}
  /\ UNCHANGED otherVars

\* the timer callback of monitor m (lines 70-72) starts a pidusage read
tick ==
  /\ exitCode = null
  /\ ticks < MaxTicks
  /\ \E m \in 1..Len(monitors) :
       /\ monitors[m].timer
       /\ pending' = pending \cup {[mon |-> m, n |-> ticks + 1,
                                     firedIn |-> PhaseNo(ep, c), firedInLoad |-> pc = "load"]}
  /\ ticks' = ticks + 1
  /\ UNCHANGED <<pc, preflightVars, serverPid, sweepVars,
                 stderr, exitCode>>
  /\ UNCHANGED <<inflight, otherVars>>

\* a pidusage read settles (line 71): its value is pushed, or its error is swallowed
sampleRead ==
  /\ exitCode = null
  /\ \E r \in pending, o \in PidusageOutcomes :
       /\ pending' = pending \ {r}
       /\ IF o.kind = "ok"
          THEN /\ monitors' = [monitors EXCEPT ![PushTarget(r.mon)].samples =
                      Append(@, [cpu |-> o.stat.cpu, memory |-> o.stat.memory, tick |-> r])]
               /\ UNCHANGED <<pc, stderr, exitCode>>
          ELSE IF ReadErrorSwallowed
               THEN UNCHANGED <<monitors, pc, stderr, exitCode>>
               ELSE Fatal(<<"pidusage failed">>) /\ UNCHANGED monitors
  /\ UNCHANGED <<preflightVars, serverPid, ep, c,
                 monitor, loads, summaries, attributed, table, ticks>>
  /\ UNCHANGED <<inflight, otherVars>>

\* nothing is left to run after the table was printed: the process ends with status 0
processEnd ==
  /\ pc = "completed"
  /\ exitCode = null
  /\ pending = {}
  /\ \A m \in 1..Len(monitors) : ~monitors[m].timer
  /\ exitCode' = Num(0)
  /\ UNCHANGED <<pc, preflightVars, serverPid, sweepVars,
                 samplerVars, stderr>>
  /\ UNCHANGED <<inflight, otherVars>>

\* the running autocannon instance sends a request
loadRequest ==
  /\ pc = "load"
  /\ exitCode = null
  /\ sent < MaxRequests
  /\ \E inst \in loads, rnd \in Rnds :
       inflight' = inflight \cup {[id |-> sent + 1, phase |-> inst.phase,
                                    path |-> inst.requests.path,
                                    body |-> RequestBody(inst.requests, rnd)]}
  /\ sent' = sent + 1
  /\ UNCHANGED <<pc, preflightVars, serverPid, sweepVars, samplerVars, stderr, exitCode,
                 reqFailures, pureVars, stagedVars, nativeVars>>

\* a request of the running instance ends: with a 2xx response, with another status,
\* or without a response
loadResponse ==
  /\ pc = "load"
  /\ exitCode = null
  /\ \E req \in inflight, o \in LoadResponses :
       /\ inflight' = inflight \ {req}
       /\ reqFailures' = IF o = "2xx" THEN reqFailures ELSE reqFailures + 1
       /\ IF o # "2xx" /\ RequestFailureRejects
          THEN Fatal(<<"request failed">>)
          ELSE UNCHANGED <<pc, stderr, exitCode>>
  /\ UNCHANGED <<preflightVars, serverPid, sweepVars, samplerVars, sent, pureVars,
                 stagedVars, nativeVars>>

Next ==
  \/ waitForServer
  \/ preflightRegister
  \/ preflightProof
  \/ preflightVerify
  \/ sweepStart
  \/ phaseDone
  \/ tick
  \/ sampleRead
  \/ processEnd

Spec == Init /\ [][Next]_vars

----------------------------------------------------------------------------
(* The staged engine (k6 script): every virtual user runs the default function *)
(* again and again; http.post and sleep block the virtual user that calls them *)

\* what the server can answer to a request of the chain; k6 reports a request
\* without response as a response with status 0
StagedRegisterBodies ==
  { [secret |-> Str("0xAA"), commitment |-> Str("123")],
    [secret |-> Str("0xBB"), commitment |-> Str("456")] }
StagedProofBodies == { [proof |-> Str("PRF1")], [proof |-> Str("PRF2")] }
StagedVerifyBodies == { [valid |-> Bool(TRUE)], [valid |-> Bool(FALSE)] }
StagedResponses(bodies) ==
  {[status |-> 0, error |-> "connection refused"], [status |-> 500, body |-> "error"]}
    \cup {[status |-> 200, json |-> b] : b \in bodies}

\* a virtual user between two iterations (trace: the steps of its iteration so far;
\* failedAt: the step of the iteration whose response was not a 200; prevFailedAt: the
\* same for the iteration before; the three are kept for the properties)
IdleVU ==
  [pc |-> "Idle", regRes |-> undefined, proofRes |-> undefined,
   secret |-> undefined, commitment |-> undefined, proof |-> undefined,
   req |-> null, trace |-> <<>>, failedAt |-> "none", prevFailedAt |-> "none"]

\* res.json(): the body of the response as an object
Json(res) == Get(res, "json")

\* the step at which the iteration failed, given the response to that step
Failure(res, step) == IF res.status = 200 THEN "none" ELSE step

\* lines 114-120
regBody(uid) ==
  [email |-> [prefix |-> "u", uid |-> uid, suffix |-> "@x.io"], name |-> uid,
   age |-> Num(30), country |-> Str("US"), dob |-> Str("1990-01-01")]

\* variants of postJson: one returns the response also when the check failed, the
\* other adds the duration to the trend only when the check passed
postJsonAlwaysRes(res, step) ==
  [ret    |-> res,
   checks |-> IF res.status = 200 THEN [checks EXCEPT ![step].passes = @ + 1]
                                  ELSE [checks EXCEPT ![step].fails = @ + 1],
   trends |-> [trends EXCEPT ![step] = @ + 1]]
postJsonSkipFailed(res, step) ==
  [ret    |-> IF res.status = 200 THEN res ELSE null,
   checks |-> IF res.status = 200 THEN [checks EXCEPT ![step].passes = @ + 1]
                                  ELSE [checks EXCEPT ![step].fails = @ + 1],
   trends |-> IF res.status = 200 THEN [trends EXCEPT ![step] = @ + 1] ELSE trends]

\* postJson (lines 102-109) once the response res of the step has arrived: the check
\* of the step is recorded, the duration is added to the trend of the step, and the
\* response is returned, or null when the check failed
postJson(res, step) ==
  LET ok == res.status = 200 IN
  [ret    |-> IF ok THEN res ELSE null,
   checks |-> IF ok THEN [checks EXCEPT ![step].passes = @ + 1]
                    ELSE [checks EXCEPT ![step].fails = @ + 1],
   trends |-> [trends EXCEPT ![step] = @ + 1]]

\* variant of AfterFailure: a failed step returns without the sleep
AfterFailureNoSleep == "Idle"

\* lines 127-130 and 141-144: after a failed step the iteration sleeps, then returns
AfterFailure == "Paced"

\* variant of Scope: the locals of the iteration are shared by all virtual users
ScopeShared(v) == 1

\* where secret, commitment and proof of an iteration live (lines 132, 146): they
\* are constants of the call of the default function, one set per virtual user
Scope(v) == v

InitStaged ==
  /\ pc = "k6"
  /\ i = 0
  /\ gotResponse = FALSE
  /\ reqLog = <<>>
  /\ reg = undefined
  /\ prf = undefined
  /\ verResp = undefined
  /\ secretHex = undefined
  /\ commitment = undefined
  /\ proof = undefined
  /\ endpoints = <<>>
  /\ serverPid = undefined
  /\ ep = 0
  /\ c = 0
  /\ monitor = undefined
  /\ monitors = <<>>
  /\ pending = {}
  /\ loads = {}
  /\ summaries = <<>>
  /\ attributed = <<>>
  /\ table = <<>>
  /\ stderr = <<>>
  /\ exitCode = null
  /\ ticks = 0
  /\ inflight = {}
  /\ sent = 0
  /\ reqFailures = 0
  /\ fnIn = undefined
  /\ fnOut = undefined
  /\ vu = [v \in 1..NumVUs |-> IdleVU]
  /\ trends = NoCounts
  /\ checks = NoChecks
  /\ issued = NoCounts
  /\ iters = 0
  /\ NoScript

sweepProgramVars ==
  <<pc, preflightVars, serverPid, sweepVars, samplerVars, stderr, exitCode, inflight, sent,
    reqFailures, pureVars>>

\* the step of an iteration that ends with the sleep (a failed step, or the end of the
\* chain): where the virtual user goes and what the iteration has done
Pace(u, target) ==
  [u EXCEPT !.pc = target, !.req = null,
            !.trace = IF target = "Paced" THEN Append(@, "pace") ELSE @]

\* lines 112-126: a virtual user starts an iteration and posts the register request
startIteration ==
  /\ iters < MaxIters
  /\ \E v \in 1..Len(vu), rnd \in Rnds :
       /\ vu[v].pc = "Idle"
       /\ vu' = [vu EXCEPT ![v] =
                   [IdleVU EXCEPT !.pc = "AwaitRegisterResult",
                                  !.prevFailedAt = vu[v].failedAt,
                                  !.trace = <<"register">>,
                                  !.req = [url |-> "/register",
                                           body |-> Stringify(regBody([vu |-> v,
                                                                       rnd |-> rnd]))]],
                        ![Scope(v)].secret = undefined,
                        ![Scope(v)].commitment = undefined,
                        ![Scope(v)].proof = undefined]
  /\ issued' = [issued EXCEPT !.register = @ + 1]
  /\ iters' = iters + 1
  /\ UNCHANGED <<sweepProgramVars, nativeVars, trends, checks>>

\* lines 121-140: the register response arrives; on success the proof request is posted
registerResult ==
  /\ \E v \in 1..Len(vu), res \in StagedResponses(StagedRegisterBodies) :
       /\ vu[v].pc = "AwaitRegisterResult"
       /\ LET out == postJson(res, "register") IN
          /\ checks' = out.checks
          /\ trends' = out.trends
          /\ IF ~Truthy(out.ret)
             THEN /\ vu' = [vu EXCEPT ![v] =
                              Pace([@ EXCEPT !.failedAt = Failure(res, "register")],
                                   AfterFailure)]
                  /\ UNCHANGED issued
             ELSE LET sec == Get(Json(out.ret), "secret")
                      com == Get(Json(out.ret), "commitment")
                      stored == [vu EXCEPT ![Scope(v)].secret = sec,
                                           ![Scope(v)].commitment = com]
                  IN /\ vu' = [stored EXCEPT
                         ![v].regRes = out.ret,
                         ![v].failedAt = Failure(res, "register"),
                         ![v].pc = "AwaitProofResult",
                         ![v].trace = Append(@, "proof"),
                         ![v].req = [url |-> "/proof",
                                     body |-> Stringify(
                                       [secret_hex |-> stored[Scope(v)].secret,
                                        commitment |-> stored[Scope(v)].commitment])]]
                     /\ issued' = [issued EXCEPT !.proof = @ + 1]
  /\ UNCHANGED <<sweepProgramVars, nativeVars, iters>>

\* lines 135-154: the proof response arrives; on success the verify request is posted
proofResult ==
  /\ \E v \in 1..Len(vu), res \in StagedResponses(StagedProofBodies) :
       /\ vu[v].pc = "AwaitProofResult"
       /\ LET out == postJson(res, "proof") IN
          /\ checks' = out.checks
          /\ trends' = out.trends
          /\ IF ~Truthy(out.ret)
             THEN /\ vu' = [vu EXCEPT ![v] =
                              Pace([@ EXCEPT !.failedAt = Failure(res, "proof")],
                                   AfterFailure)]
                  /\ UNCHANGED issued
             ELSE LET stored == [vu EXCEPT ![Scope(v)].proof = Get(Json(out.ret), "proof")]
                  IN /\ vu' = [stored EXCEPT
                         ![v].proofRes = out.ret,
                         ![v].failedAt = Failure(res, "proof"),
                         ![v].pc = "AwaitVerifyResult",
                         ![v].trace = Append(@, "verify"),
                         ![v].req = [url |-> "/verify",
                                     body |-> Stringify(
                                       [commitment |-> stored[Scope(v)].commitment,
                                        proof |-> stored[Scope(v)].proof])]]
                     /\ issued' = [issued EXCEPT !.verify = @ + 1]
  /\ UNCHANGED <<sweepProgramVars, nativeVars, iters>>

\* lines 149-157: the verify response arrives; whatever it is, the iteration sleeps
verifyResult ==
  /\ \E v \in 1..Len(vu), res \in StagedResponses(StagedVerifyBodies) :
       /\ vu[v].pc = "AwaitVerifyResult"
       /\ LET out == postJson(res, "verify") IN
          /\ checks' = out.checks
          /\ trends' = out.trends
          /\ vu' = [vu EXCEPT ![v] =
                      Pace([@ EXCEPT !.failedAt = Failure(res, "verify")], "Paced")]
  /\ UNCHANGED <<sweepProgramVars, nativeVars, issued, iters>>

\* the sleep ends and the default function returns: the virtual user is free again
paceDone ==
  /\ \E v \in 1..Len(vu) :
       /\ vu[v].pc = "Paced"
       /\ vu' = [vu EXCEPT ![v].pc = "Idle"]
  /\ UNCHANGED <<sweepProgramVars, nativeVars, trends, checks, issued, iters>>

NextStaged ==
  \/ startIteration
  \/ registerResult
  \/ proofResult
  \/ verifyResult
  \/ paceDone

SpecStaged == InitStaged /\ [][NextStaged]_vars

\* the sweep seen at the level of the requests of the load runs
NextLoad ==
  \/ waitForServer
  \/ preflightRegister
  \/ preflightProof
  \/ preflightVerify
  \/ sweepStart
  \/ phaseDone
  \/ loadRequest
  \/ loadResponse
  \/ processEnd

SpecLoad == Init /\ [][NextLoad]_vars

\* the harness is run as the sweep or as the staged profile
InitRuns == Init \/ InitStaged

NextRuns ==
  \/ waitForServer
  \/ preflightRegister
  \/ preflightProof
  \/ preflightVerify
  \/ sweepStart
  \/ phaseDone
  \/ loadRequest
  \/ loadResponse
  \/ processEnd
  \/ startIteration
  \/ registerResult
  \/ proofResult
  \/ verifyResult
  \/ paceDone

SpecRuns == InitRuns /\ [][NextRuns]_vars

----------------------------------------------------------------------------
(* The summary record as a function of what the load run reports *)

\* an object with the properties that are given (not undefined)
Object(fields) == [k \in {j \in DOMAIN fields : fields[j] # undefined} |-> fields[k]]

\* latency values a load run can report: none, 0 (below one millisecond), and others
LatencyReports ==
  { Object([average |-> a, p50 |-> p, median |-> md, mean |-> mn]) :
      a \in {Num(0), Num(7)},
      p \in {undefined, Num(0), Num(6)},
      md \in {undefined, Num(0), Num(5)},
      mn \in {Num(0), Num(7), Div(2, 5)} }

InitP50 ==
  /\ pc = "summaries.push"
  /\ i = 0
  /\ gotResponse = FALSE
  /\ reqLog = <<>>
  /\ reg = undefined
  /\ prf = undefined
  /\ verResp = undefined
  /\ secretHex = undefined
  /\ commitment = undefined
  /\ proof = undefined
  /\ endpoints = <<>>
  /\ serverPid = undefined
  /\ ep = 0
  /\ c = 0
  /\ monitor = undefined
  /\ monitors = <<>>
  /\ pending = {}
  /\ loads = {}
  /\ summaries = <<>>
  /\ attributed = <<>>
  /\ table = <<>>
  /\ stderr = <<>>
  /\ exitCode = null
  /\ ticks = 0
  /\ inflight = {}
  /\ sent = 0
  /\ reqFailures = 0
  /\ fnIn \in {[latency |-> l, throughput |-> [average |-> Num(2048)],
                 requests |-> [average |-> Num(90)]] : l \in LatencyReports}
  /\ fnOut = undefined
  /\ vu = <<>>
  /\ trends = NoCounts
  /\ checks = NoChecks
  /\ issued = NoCounts
  /\ iters = 0
  /\ NoScript

\* lines 178-187 applied to the result fnIn of a load run
pushSummary ==
  /\ pc = "summaries.push"
  /\ fnOut = undefined
  /\ fnOut' = SummaryRecord("register", CONCURRENCY_LEVELS[1], fnIn, null)
  /\ UNCHANGED <<pc, preflightVars, serverPid, sweepVars, samplerVars, stderr, exitCode,
                 inflight, sent, reqFailures, fnIn, stagedVars, nativeVars>>

NextP50 ==
  \/ pushSummary

SpecP50 == InitP50 /\ [][NextP50]_vars

----------------------------------------------------------------------------
(* The native benchmark script (bench_native.sh) *)

\* exit statuses of mkdir -p: done, or the directory cannot be created
MkdirStatuses == {0, 1}

\* exit statuses of k6 run: all thresholds met, a threshold failed, the script
\* threw, k6 is not installed
K6Statuses == {0, 99, 107, 127}

\* line 2, set -e: a foreground command that fails ends the script with its status
errexit(status, next) ==
  IF status = 0
    THEN /\ sh' = next
         /\ UNCHANGED shStatus
    ELSE /\ sh' = "exited"
         /\ shStatus' = status

\* cmd &: the command runs in the background whatever becomes of it, and $! is its pid
Background(ps) == Append(ps, "running")

\* kill "$p" 2>/dev/null || true: SIGTERM to a process that runs, nothing otherwise
kill(ps, p) ==
  [q \in DOMAIN ps |-> IF q = p /\ ps[q] = "running" THEN "killed" ELSE ps[q]]

InitNative ==
  /\ pc = "none"
  /\ i = 0
  /\ gotResponse = FALSE
  /\ reqLog = <<>>
  /\ reg = undefined
  /\ prf = undefined
  /\ verResp = undefined
  /\ secretHex = undefined
  /\ commitment = undefined
  /\ proof = undefined
  /\ endpoints = <<>>
  /\ serverPid = undefined
  /\ ep = 0
  /\ c = 0
  /\ monitor = undefined
  /\ monitors = <<>>
  /\ pending = {}
  /\ loads = {}
  /\ summaries = <<>>
  /\ attributed = <<>>
  /\ table = <<>>
  /\ stderr = <<>>
  /\ exitCode = null
  /\ ticks = 0
  /\ inflight = {}
  /\ sent = 0
  /\ reqFailures = 0
  /\ fnIn = undefined
  /\ fnOut = undefined
  /\ vu = <<>>
  /\ trends = NoCounts
  /\ checks = NoChecks
  /\ issued = NoCounts
  /\ iters = 0
  /\ sh = "mkdir"
  /\ procs = <<>>
  /\ PID = 0
  /\ TOPPID = 0
  /\ shStatus = null
  /\ topLog = 0

nodeVars ==
  <<pc, preflightVars, serverPid, sweepVars, samplerVars, stderr, exitCode, inflight,
    sent, reqFailures, pureVars, stagedVars>>

\* lines 9-11: the log directory is made
mkdirLogdir ==
  /\ sh = "mkdir"
  /\ \E status \in MkdirStatuses : errexit(status, "startServer")
  /\ UNCHANGED <<nodeVars, procs, PID, TOPPID, topLog>>

\* lines 13-15: $SERVER_BIN &, PID=$!
startServer ==
  /\ sh = "startServer"
  /\ procs' = Background(procs)
  /\ PID' = Len(procs')
  /\ sh' = "sleep"
  /\ UNCHANGED <<nodeVars, TOPPID, shStatus, topLog>>

\* line 16: sleep 2
sleepDone ==
  /\ sh = "sleep"
  /\ sh' = "startTop"
  /\ UNCHANGED <<nodeVars, procs, PID, TOPPID, shStatus, topLog>>

\* lines 18-22: top ... >> top.log &, TOPPID=$!
startTop ==
  /\ sh = "startTop"
  /\ procs' = Background(procs)
  /\ TOPPID' = Len(procs')
  /\ sh' = "k6"
  /\ UNCHANGED <<nodeVars, PID, shStatus, topLog>>

\* lines 24-25: k6 run in the foreground, until it exits
k6Run ==
  /\ sh = "k6"
  /\ \E status \in K6Statuses : errexit(status, "killTop")
  /\ UNCHANGED <<nodeVars, procs, PID, TOPPID, topLog>>

\* lines 27-28: kill "$TOPPID" 2>/dev/null || true
killTop ==
  /\ sh = "killTop"
  /\ procs' = kill(procs, TOPPID)
  /\ sh' = "killServer"
  /\ UNCHANGED <<nodeVars, PID, TOPPID, shStatus, topLog>>

\* line 29: kill "$PID" 2>/dev/null || true
killServer ==
  /\ sh = "killServer"
  /\ procs' = kill(procs, PID)
  /\ sh' = "echo"
  /\ UNCHANGED <<nodeVars, PID, TOPPID, shStatus, topLog>>

\* lines 31-33: the last commands, and the end of the script
scriptEnd ==
  /\ sh = "echo"
  /\ sh' = "exited"
  /\ shStatus' = 0
  /\ UNCHANGED <<nodeVars, procs, PID, TOPPID, topLog>>

\* line 21: top appends a sample to top.log (it runs forever: -l 0)
topSample ==
  /\ TOPPID # 0
  /\ procs[TOPPID] = "running"
  /\ topLog < MaxSamples
  /\ topLog' = topLog + 1
  /\ UNCHANGED <<nodeVars, sh, procs, PID, TOPPID, shStatus>>

\* a background process ends by itself: the server crashes or cannot bind its port,
\* top rejects its options or loses its target
processExits ==
  /\ \E p \in DOMAIN procs :
       /\ procs[p] = "running"
       /\ procs' = [procs EXCEPT ![p] = "exited"]
  /\ UNCHANGED <<nodeVars, sh, PID, TOPPID, shStatus, topLog>>

NextNative ==
  \/ mkdirLogdir
  \/ startServer
  \/ sleepDone
  \/ startTop
  \/ k6Run
  \/ killTop
  \/ killServer
  \/ scriptEnd
  \/ topSample
  \/ processExits

SpecNative == InitNative /\ [][NextNative]_vars

----------------------------------------------------------------------------
(* Properties of the sweep benchmark (bench.js) *)

SentPaths == [n \in 1..Len(reqLog) |-> reqLog[n].path]
NoPhaseEver == ep = 0 /\ loads = {} /\ monitors = <<>> /\ summaries = <<>>
ActiveTimers == {m \in 1..Len(monitors) : monitors[m].timer}
IsPrefix(a, b) == Len(a) <= Len(b) /\ a = SubSeq(b, 1, Len(a))

\* C1: when the verify response of the preflight has valid = false, the run is aborted:
\* no load phase was ever started, there is no summary record, no table was printed,
\* and the process has ended with a non-zero exit status.
C1_InvalidProofAborts ==
  (verResp # undefined /\ Get(verResp.data, "valid") = Bool(FALSE)) =>
    /\ pc = "exited"
    /\ exitCode # null
    /\ exitCode # Num(0)
    /\ NoPhaseEver
    /\ table = <<>>

C1_Witness ==
  /\ verResp # undefined
  /\ Get(verResp.data, "valid") = Bool(FALSE)
  /\ exitCode = Num(1)

\* C2: waitForServer returns only after some attempt received an HTTP response; as
\* long as no attempt got a response the run is still waiting, or it has ended with
\* 'Server not reachable' without a preflight request and without a load phase.
C2_ReadyOnlyAfterResponse ==
  ~gotResponse =>
    \/ pc = "waitForServer" /\ reqLog = <<>>
    \/ /\ pc = "exited"
       /\ stderr = <<"Server not reachable">>
       /\ reqLog = <<>>
       /\ NoPhaseEver

\* C3: a failure at the register or the proof step of the preflight (no response, an
\* error status, or a 200 response without secret, commitment or proof) aborts the
\* run at that step: no request of a later step was sent, no load phase started.
C3_PreflightStepFailureAborts ==
  /\ ( \/ (Len(stderr) = 2 /\ stderr[2] = "register request failed")
       \/ (reg # undefined /\ ( \/ Get(reg.data, "secret") = undefined
                                \/ Get(reg.data, "commitment") = undefined )) )
     => (pc = "exited" /\ SentPaths = <<"/register">> /\ NoPhaseEver)
  /\ ( \/ (Len(stderr) = 2 /\ stderr[2] = "proof request failed")
       \/ (prf # undefined /\ Get(prf.data, "proof") = undefined) )
     => (pc = "exited" /\ SentPaths = <<"/register", "/proof">> /\ NoPhaseEver)

\* C4: a load phase (of any endpoint) has begun only if the preflight sent register,
\* proof and verify in that order, each was answered, and the verify response had
\* valid = true.
C4_LoadOnlyAfterValidFixture ==
  (ep # 0 \/ loads # {} \/ summaries # <<>> \/ monitors # <<>>) =>
    /\ SentPaths = <<"/register", "/proof", "/verify">>
    /\ reg # undefined
    /\ prf # undefined
    /\ verResp # undefined
    /\ Get(verResp.data, "valid") = Bool(TRUE)

C4_Witness ==
  /\ pc = "load"
  /\ \E inst \in loads : inst.requests.name = "generateProof"

\* C5: when the sweep has completed, the number of summary records is the number of
\* endpoints times the number of concurrency levels, and each pair (endpoint,
\* concurrency) has exactly one record.
C5_OneRecordPerPair ==
  pc = "completed" =>
    /\ Len(summaries) = Len(endpoints) * Len(CONCURRENCY_LEVELS)
    /\ \A e \in 1..Len(endpoints), k \in 1..Len(CONCURRENCY_LEVELS) :
         Cardinality({n \in 1..Len(summaries) :
                        /\ summaries[n].endpoint = endpoints[e].name
                        /\ summaries[n].concurrency = CONCURRENCY_LEVELS[k]}) = 1

C5_Witness == pc = "completed" /\ table = summaries /\ exitCode = Num(0)

\* C6: when the process id of the server was not resolved, no sampler was ever started
\* and every summary record has cpu = null and memory = null, never 0.
C6_NoPidNoSamples ==
  serverPid = null =>
    /\ monitors = <<>>
    /\ pending = {}
    /\ ticks = 0
    /\ \A n \in 1..Len(summaries) :
         /\ summaries[n].cpu = null
         /\ summaries[n].memory = null
         /\ summaries[n].cpu # Num(0)
         /\ summaries[n].memory # Num(0)

C6_Witness == serverPid = null /\ Len(summaries) = NumPhases

\* C7: every sample that was averaged for a phase comes from a tick of the monitor of
\* that phase, fired while that phase's load was running (between the start of its
\* sampler and its stop()).
C7_SamplesWithinPhase ==
  \A n \in 1..Len(attributed) :
    \A j \in 1..Len(attributed[n]) :
      LET t == attributed[n][j].tick IN
      /\ t.firedIn = n
      /\ t.firedInLoad
      /\ monitors[t.mon].phase = n

\* a read of phase 1 was still pending at stop() of phase 1 and has completed since,
\* and phase 2 averaged a sample of its own
C7_Witness ==
  /\ Len(attributed) >= 2
  /\ attributed[2] # <<>>
  /\ Len(monitors[1].samples) > Len(attributed[1])

\* C8: never more than one sampler timer is active; and when the server process was
\* found, exactly one is active while a load phase is running.
C8_OneSamplerPerPhase ==
  /\ Cardinality(ActiveTimers) <= 1
  /\ (Truthy(serverPid) /\ pc = "load") =>
       (Truthy(monitor) /\ ActiveTimers = {monitor.ref})

C8_Witness ==
  /\ Truthy(serverPid)
  /\ pc = "load"
  /\ Len(monitors) = 2
  /\ ActiveTimers = {2}

\* C9: load phases never overlap and run in the order endpoints outer, concurrency
\* levels inner: while a phase is running it is the only load run, the records of all
\* phases before it are there, in that order, and their samplers are stopped.
C9_PhasesSequentialInOrder ==
  LET L == Len(CONCURRENCY_LEVELS)
      EpOf(n) == EndpointNames[((n - 1) \div L) + 1]
      LevelOf(n) == CONCURRENCY_LEVELS[((n - 1) % L) + 1]
  IN /\ Cardinality(loads) <= 1
     /\ Len(summaries) <= NumPhases
     /\ \A n \in 1..Len(summaries) :
          /\ summaries[n].endpoint = EpOf(n)
          /\ summaries[n].concurrency = LevelOf(n)
     /\ \A inst \in loads :
          /\ inst.phase = Len(summaries) + 1
          /\ inst.requests.name = EpOf(inst.phase)
          /\ inst.connections = LevelOf(inst.phase)
          /\ \A m \in 1..Len(monitors) :
               monitors[m].phase < inst.phase => ~monitors[m].timer
     /\ \A a \in 1..Len(CONCURRENCY_LEVELS) - 1 :
          CONCURRENCY_LEVELS[a] < CONCURRENCY_LEVELS[a + 1]

C9_Witness ==
  /\ pc = "load"
  /\ Len(summaries) = Len(CONCURRENCY_LEVELS) + 1
  /\ summaries[Len(summaries)].endpoint = "generateProof"

\* C10 as stated: a sample whose read completes after stop() of its phase still
\* contributes to the averages of that phase, the buffer being read only when the
\* sampler has finished appending: the buffer of a recorded phase holds exactly the
\* samples that were averaged.
C10_LateSampleAveraged ==
  \A m \in 1..Len(monitors) :
    monitors[m].phase <= Len(attributed) =>
      monitors[m].samples = attributed[monitors[m].phase]

\* C10 amended: a sample whose tick fired in a phase and whose read completes after
\* stop() of that phase is appended to the buffer of that phase and of no other, and
\* it does not contribute to the averages: the samples averaged are those the buffer
\* held when stop() returned, a prefix of the buffer.
C10_LateSampleKeptNotAveraged ==
  \A m \in 1..Len(monitors) :
    /\ \A j \in 1..Len(monitors[m].samples) :
         /\ monitors[m].samples[j].tick.mon = m
         /\ monitors[m].samples[j].tick.firedIn = monitors[m].phase
    /\ monitors[m].phase <= Len(attributed) =>
         IsPrefix(attributed[monitors[m].phase], monitors[m].samples)

C10_Witness ==
  \E m \in 1..Len(monitors) :
    /\ monitors[m].phase <= Len(attributed)
    /\ ~monitors[m].timer
    /\ Len(monitors[m].samples) = Len(attributed[monitors[m].phase]) + 1

\* C11: a read that fails appends nothing and raises nothing: the step leaves main,
\* the exit status, the error output and the records as they were; and a phase whose
\* buffer is empty at stop() (every read failed) has cpu and memory null in its record.
C11_FailedReadSkipped ==
  /\ [](\A n \in 1..Len(summaries) :
          attributed[n] = <<>> => (summaries[n].cpu = null /\ summaries[n].memory = null))
  /\ [][ ((\E r \in pending : pending' = pending \ {r}) /\ monitors' = monitors) =>
           /\ pc' = pc
           /\ exitCode' = exitCode
           /\ stderr' = stderr
           /\ summaries' = summaries
           /\ table' = table ]_vars

\* both reads of the run failed, and the sweep completed without an error
C11_Witness ==
  /\ Truthy(serverPid)
  /\ ticks = MaxTicks
  /\ pending = {}
  /\ \A m \in 1..Len(monitors) : monitors[m].samples = <<>>
  /\ pc = "completed"
  /\ stderr = <<>>
  /\ \A n \in 1..Len(summaries) : summaries[n].cpu = null

RECURSIVE Total(_, _, _)
Total(list, f, n) == IF n = 0 THEN 0 ELSE list[n][f] + Total(list, f, n - 1)
Usage(list) == [n \in 1..Len(list) |-> <<list[n].cpu, list[n].memory>>]

\* C12: the cpu and memory of a record are the arithmetic means (sum divided by
\* count) over all samples that were read for it, both null when there was none;
\* equal sample lists give equal results; and the list that was read is still the
\* beginning of the buffer, unchanged.
C12_AveragesAreMeans ==
  /\ \A n \in 1..Len(summaries) :
       LET list == attributed[n]
           rec == summaries[n]
       IN IF list = <<>>
          THEN rec.cpu = null /\ rec.memory = null
          ELSE /\ IsNumber(rec.cpu) /\ rec.cpu.den > 0
               /\ rec.cpu.num * Len(list) = rec.cpu.den * Total(list, "cpu", Len(list))
               /\ IsNumber(rec.memory) /\ rec.memory.den > 0
               /\ rec.memory.num * Len(list) =
                    rec.memory.den * Total(list, "memory", Len(list))
  /\ \A n1, n2 \in 1..Len(summaries) :
       Usage(attributed[n1]) = Usage(attributed[n2]) =>
         /\ summaries[n1].cpu = summaries[n2].cpu
         /\ summaries[n1].memory = summaries[n2].memory
  /\ \A m \in 1..Len(monitors) :
       monitors[m].phase <= Len(attributed) =>
         IsPrefix(attributed[monitors[m].phase], monitors[m].samples)

\* a record averaged two samples with different usage
C12_Witness ==
  \E n \in 1..Len(summaries) :
    /\ Len(attributed[n]) = 2
    /\ attributed[n][1].cpu # attributed[n][2].cpu
    /\ summaries[n].cpu = [num |-> 3, den |-> 2]

\* C17: when a load run ends in an error, the sampler timer is halted and the results
\* captured so far are reported: the table has the records of the completed phases
\* and an entry for the phase that was cut short.
C17_PartialResultsReported ==
  stderr = <<"load run failed">> =>
    /\ ActiveTimers = {}
    /\ Len(table) = Len(summaries) + 1
    /\ IsPrefix(summaries, table)

----------------------------------------------------------------------------
(* Properties of the requests of the load runs (SpecLoad) *)

PathOfPhase(n) == EndpointPaths[((n - 1) \div Len(CONCURRENCY_LEVELS)) + 1]

\* C13: once the preflight has produced the fixture it never changes and it is what the
\* responses of the preflight gave; every request of a generateProof phase carries
\* exactly that secret and commitment, every request of a verifyProof phase exactly
\* that commitment and proof; the requests of a register phase, and only they, carry
\* a user built for the request.
C13_FixtureReusedVerbatim ==
  /\ [](endpoints # <<>> =>
         /\ secretHex = Get(reg.data, "secret")
         /\ commitment = Get(reg.data, "commitment")
         /\ proof = Get(prf.data, "proof")
         /\ \A r \in inflight :
              /\ r.path = PathOfPhase(r.phase)
              /\ r.path = "/proof" =>
                   /\ DOMAIN r.body \subseteq {"secret_hex", "commitment"}
                   /\ Get(r.body, "secret_hex") = secretHex
                   /\ Get(r.body, "commitment") = commitment
              /\ r.path = "/verify" =>
                   /\ DOMAIN r.body \subseteq {"commitment", "proof"}
                   /\ Get(r.body, "commitment") = commitment
                   /\ Get(r.body, "proof") = proof
              /\ ("email" \in DOMAIN r.body) <=> (r.path = "/register")
              /\ r.path = "/register" => r.body.email.rnd \in Rnds)
  /\ [][endpoints # <<>> =>
          /\ secretHex' = secretHex
          /\ commitment' = commitment
          /\ proof' = proof
          /\ endpoints' = endpoints]_vars

\* two requests of the generateProof phase at the second concurrency level are in
\* flight, with the secret and the commitment of the preflight
C13_Witness ==
  /\ secretHex = Str("0xAA")
  /\ commitment = Str("123")
  /\ Cardinality({r \in inflight : r.path = "/proof"
                                     /\ r.phase = Len(CONCURRENCY_LEVELS) + 2}) = 2

----------------------------------------------------------------------------
(* Properties of the staged engine (SpecStaged) *)

VUs == 1..Len(vu)
Awaiting(step) ==
  {v \in VUs : vu[v].pc = CASE step = "register" -> "AwaitRegisterResult"
                             [] step = "proof"    -> "AwaitProofResult"
                             [] step = "verify"   -> "AwaitVerifyResult"}

\* C14: when the register or the proof response of an iteration is not a 200, the
\* iteration issues no further request of the chain, the failure is recorded as a
\* failed check of that step, the virtual user paces, and what it starts next is a
\* new iteration, at register.
C14_FailedStepEndsChain ==
  /\ [](\A v \in VUs :
         /\ vu[v].failedAt = "register" =>
              /\ vu[v].trace = <<"register", "pace">>
              /\ vu[v].pc \in {"Paced", "Idle"}
              /\ vu[v].req = null
              /\ checks.register.fails >= 1
         /\ vu[v].failedAt = "proof" =>
              /\ vu[v].trace = <<"register", "proof", "pace">>
              /\ vu[v].pc \in {"Paced", "Idle"}
              /\ vu[v].req = null
              /\ checks.proof.fails >= 1)
  /\ [][\A v \in VUs :
          /\ (vu[v].failedAt = "none" /\ vu'[v].failedAt \in {"register", "proof"}) =>
               /\ checks'[vu'[v].failedAt].fails = checks[vu'[v].failedAt].fails + 1
               /\ vu'[v].pc = "Paced"
               /\ issued' = issued
          /\ (vu[v].failedAt \in {"register", "proof"} /\ vu'[v] # vu[v]) =>
               \/ vu'[v] = [vu[v] EXCEPT !.pc = "Idle"]
               \/ /\ vu'[v].pc = "AwaitRegisterResult"
                  /\ vu'[v].req.url = "/register"
                  /\ vu'[v].trace = <<"register">>]_vars

\* a virtual user whose last iteration failed at proof is in a new iteration
C14_Witness ==
  \E v \in VUs :
    /\ vu[v].prevFailedAt = "proof"
    /\ vu[v].pc = "AwaitRegisterResult"
    /\ checks.proof.fails = 1
    /\ issued.verify = 0

\* C15: every request that was issued and answered has added one entry to the trend
\* of its step, whatever the answer, and nothing else adds entries: the entries of a
\* trend are the requests issued for its step less those still waiting for their
\* response, and the same number of checks of the step was recorded.
C15_OneTrendEntryPerRequest ==
  \A n \in 1..Len(Steps) :
    LET step == Steps[n] IN
    /\ trends[step] + Cardinality(Awaiting(step)) = issued[step]
    /\ checks[step].passes + checks[step].fails = trends[step]

\* all iterations are over; responses failed and succeeded, and every trend has as
\* many entries as requests were issued for its step
C15_Witness ==
  /\ iters = MaxIters
  /\ \A v \in VUs : vu[v].pc = "Idle"
  /\ checks.register.fails >= 1
  /\ checks.proof.fails >= 1
  /\ trends.register = MaxIters
  /\ trends.proof = 2
  /\ trends.verify = 1
  /\ trends = issued

\* C18: an iteration issues at most one request per step, in the order register,
\* proof, verify; the verify result always leads to pacing; and every iteration
\* paces exactly once, as its last step before the virtual user is idle again.
C18_IterationCycle ==
  /\ [](\A v \in VUs :
         LET t == vu[v].trace IN
         CASE vu[v].pc = "AwaitRegisterResult" -> t = <<"register">>
           [] vu[v].pc = "AwaitProofResult"    -> t = <<"register", "proof">>
           [] vu[v].pc = "AwaitVerifyResult"   -> t = <<"register", "proof", "verify">>
           [] vu[v].pc = "Paced" ->
                t \in { <<"register", "pace">>, <<"register", "proof", "pace">>,
                        <<"register", "proof", "verify", "pace">> }
           [] vu[v].pc = "Idle" ->
                t \in { <<>>, <<"register", "pace">>, <<"register", "proof", "pace">>,
                        <<"register", "proof", "verify", "pace">> })
  /\ [][\A v \in VUs :
          /\ (vu[v].pc = "AwaitVerifyResult" /\ vu'[v] # vu[v]) => vu'[v].pc = "Paced"
          /\ (vu[v].pc # "Idle" /\ vu'[v].pc = "Idle") => vu[v].pc = "Paced"]_vars

\* one virtual user is idle after an iteration that failed at register, the other
\* is pacing after a full chain
C18_Witness ==
  \E v, w \in VUs :
    /\ vu[v].pc = "Idle"
    /\ vu[v].trace = <<"register", "pace">>
    /\ vu[w].pc = "Paced"
    /\ vu[w].trace = <<"register", "proof", "verify", "pace">>

\* C20: the proof request of an iteration carries the secret and the commitment of
\* the register response of that iteration, and its verify request that commitment
\* and the proof of its proof response, whatever the other virtual users do.
C20_ChainValuesPerIteration ==
  \A v \in VUs :
    /\ vu[v].pc = "AwaitProofResult" =>
         /\ vu[v].req.url = "/proof"
         /\ Get(vu[v].req.body, "secret_hex") = Get(Json(vu[v].regRes), "secret")
         /\ Get(vu[v].req.body, "commitment") = Get(Json(vu[v].regRes), "commitment")
    /\ vu[v].pc = "AwaitVerifyResult" =>
         /\ vu[v].req.url = "/verify"
         /\ Get(vu[v].req.body, "commitment") = Get(Json(vu[v].regRes), "commitment")
         /\ Get(vu[v].req.body, "proof") = Get(Json(vu[v].proofRes), "proof")

\* two virtual users wait for their verify results, with different commitments and
\* different proofs
C20_Witness ==
  \E v, w \in VUs :
    /\ vu[v].pc = "AwaitVerifyResult"
    /\ vu[w].pc = "AwaitVerifyResult"
    /\ vu[v].req.body.commitment # vu[w].req.body.commitment
    /\ vu[v].req.body.proof # vu[w].req.body.proof

----------------------------------------------------------------------------
(* Properties of both programs (SpecRuns) and of the summary record (SpecP50) *)

\* C16: a request that fails does not abort the run. In the sweep the step leaves
\* main, the exit status, the load run and the records as they were, and a sweep
\* that completes has all its records; in the staged engine a virtual user whose
\* iteration failed paces, becomes idle, and can start its next iteration.
C16_RequestFailureNotFatal ==
  /\ [](pc = "completed" => Len(summaries) = NumPhases)
  /\ [](\A v \in VUs :
         (vu[v].failedAt # "none" /\ vu[v].pc = "Idle" /\ iters < MaxIters) =>
           ENABLED (startIteration /\ vu'[v].pc = "AwaitRegisterResult"))
  /\ [][reqFailures' > reqFailures =>
          /\ pc' = pc
          /\ exitCode' = exitCode
          /\ stderr' = stderr
          /\ loads' = loads
          /\ summaries' = summaries]_vars
  /\ [][\A v \in VUs :
          (vu[v].failedAt = "none" /\ vu'[v].failedAt # "none") => vu'[v].pc = "Paced"]_vars

\* requests of the sweep failed, and the sweep completed with all its records
C16_Witness ==
  /\ pc = "completed"
  /\ reqFailures = MaxRequests
  /\ Len(summaries) = NumPhases
  /\ table = summaries

\* C19: latencyP50 of a record is the 50th percentile of the load run whenever the
\* run reports one, also when it is 0; the median only when no 50th percentile is
\* reported; the mean only when the median is not reported either.
C19_P50WheneverAvailable ==
  fnOut # undefined =>
    LET l == fnIn.latency IN
    fnOut.latencyP50 = IF "p50" \in DOMAIN l THEN l.p50
                       ELSE IF "median" \in DOMAIN l THEN l.median
                       ELSE l.mean

----------------------------------------------------------------------------
(* Properties of the native benchmark script (SpecNative) *)

\* C21: whenever the native script has terminated after it started the server and
\* the sampler, neither of the two background processes is left running, also when
\* the load run exited with a non-zero status.
C21_BackgroundProcessesKilled ==
  (sh = "exited" /\ PID # 0 /\ TOPPID # 0) =>
    /\ procs[PID] # "running"
    /\ procs[TOPPID] # "running"
====
